---- MODULE Spec2Model ----
(***************************************************************************)
(* A model of pylidator: the ErrorLedger (error_ledger.py) and the         *)
(* validate / validator engine (pylidator.py).                             *)
(*                                                                         *)
(* Python values are tagged records [t |-> type, v |-> value].  A dict of  *)
(* a validator's return or of a message is an ordered sequence of          *)
(* <<key, value>> pairs (Python dicts iterate in insertion order).  An     *)
(* Error record and an object_data dict are TLA+ functions from key        *)
(* strings to value strings; d.update(e) is  e @@ d.  None stored as a     *)
(* value of a record key is the string "None".                             *)
(***************************************************************************)
EXTENDS Integers, Sequences, FiniteSets, TLC

VARIABLES
    ledgers,      \* SpecLedger: ledger name -> ErrorLedger object
    nops,         \* SpecLedger: number of calls made so far
    last,         \* SpecLedger: the last call made, with its outcome
    everError,    \* SpecLedger: ledger name -> an ERROR record was ever added
    pc,           \* validate: "idle", "loop", "fetch", "items", "done", "failed"
    cfg,          \* validate: the arguments of the current call
    ledger,       \* validate: the ErrorLedger of the current call
    cache,        \* validate: _cached_provided_items (category -> item tuple)
    heap,         \* validate: the extra-field dict objects the generators yielded
    cur,          \* validate: the validator being run and its position
    applied,      \* validate: validators_applied, as <<level, validator, is_valid>>
    exc,          \* validate: the exception that ended the call, or NoExc
    returned,     \* validate: the ledger handed back to the caller, or PyNone
    hist          \* validate: observations of the current call (not program state)

vars == <<ledgers, nops, last, everError, pc, cfg, ledger, cache, heap, cur,
          applied, exc, returned, hist>>

ledgerVars == <<ledgers, nops, last, everError>>
validateVars == <<pc, cfg, ledger, cache, heap, cur, applied, exc, returned, hist>>

-----------------------------------------------------------------------------
(* Python values *)

PyNone == [t |-> "none"]
PyStr(s) == [t |-> "str", v |-> s]
PyInt(n) == [t |-> "int", v |-> n]
PyDict(items) == [t |-> "dict", v |-> items]
PyList(items) == [t |-> "list", v |-> items]
PyMap(d) == [t |-> "map", v |-> d]

\* Python truthiness: None, "", {}, [] and 0 are falsy.
Truthy(x) ==
    CASE x.t = "none" -> FALSE
      [] x.t = "str"  -> x.v # ""
      [] x.t = "int"  -> x.v # 0
      [] x.t = "dict" -> Len(x.v) > 0
      [] x.t = "list" -> Len(x.v) > 0
      [] x.t = "map"  -> DOMAIN x.v # {}
      [] OTHER -> TRUE

SingleKeyDict(m) == m.t = "dict" /\ Len(m.v) = 1

ERROR == "ERROR"
WARN == "WARN"
LEVELS == {ERROR, WARN}

NoExc == [type |-> "none", names |-> {}]
NoCall == [op |-> "none"]
Raise(type, names) == [type |-> type, names |-> names]

-----------------------------------------------------------------------------
(* error_ledger.py *)

\* ErrorLedger.__init__
NewLedger(default_object_data, logging) ==
    [errors |-> <<>>,
     is_valid |-> TRUE,
     default_object_data |-> IF default_object_data.t = "none" THEN <<>>
                             ELSE default_object_data.v,
     logging |-> logging,
     already_logged |-> {},
     error_count |-> 0,
     warning_count |-> 0]

\* The stored message as it would be without the format line.
DictMessage_unprefixed(field_name, error) == error

\* The message create_error_object stores for a {field_name: error} mapping.
DictMessage(field_name, error) == field_name \o ": " \o error

\* ErrorLedger.create_error_object: [exc, item]
create_error_object(message, level, object_data) ==
    IF message.t = "dict"
    THEN IF Len(message.v) # 1
         THEN [exc |-> Raise("AssertionError", {}), item |-> <<>>]
         ELSE LET field_name == message.v[1][1]
                  error == message.v[1][2]
                  new_item == [message |-> DictMessage(field_name, error),
                               field |-> field_name,
                               level |-> level]
              IN [exc |-> NoExc,
                  item |-> IF Truthy(object_data) THEN object_data.v @@ new_item
                           ELSE new_item]
    ELSE IF message.t = "str"
    THEN LET new_item == [message |-> message.v, level |-> level]
         IN [exc |-> NoExc,
             item |-> IF Truthy(object_data) THEN object_data.v @@ new_item
                      ELSE new_item]
    ELSE [exc |-> Raise("ValueError", {}), item |-> <<>>]

\* The counters and the flag add_object updates after the append.
CountLevel(L, new_item) ==
    IF new_item["level"] = ERROR
    THEN [L EXCEPT !.is_valid = FALSE, !.error_count = @ + 1]
    ELSE IF new_item["level"] = WARN
    THEN [L EXCEPT !.warning_count = @ + 1]
    ELSE L

\* ErrorLedger.add_object: [exc, L].  A KeyError leaves the ledger as it is
\* at the line that raised.
add_object(L, new_item_data) ==
    LET new_item == new_item_data @@ L.default_object_data
        has(k) == k \in DOMAIN new_item
    IN IF L.logging /\ ~(has("level") /\ has("message"))
       THEN [exc |-> Raise("KeyError",
                           {IF has("level") THEN "message" ELSE "level"}),
             L |-> L]
       ELSE LET logged == IF L.logging
                          THEN [L EXCEPT !.already_logged =
                                   @ \cup {new_item["level"] \o " " \o new_item["message"]}]
                          ELSE L
                appended == [logged EXCEPT !.errors = Append(@, new_item)]
            IN IF ~has("level")
               THEN [exc |-> Raise("KeyError", {"level"}), L |-> appended]
               ELSE [exc |-> NoExc, L |-> CountLevel(appended, new_item)]

\* ErrorLedger.add_message: [exc, L]
add_message(L, message, level, object_data) ==
    LET made == create_error_object(message, level, object_data)
    IN IF made.exc # NoExc
       THEN [exc |-> made.exc, L |-> L]
       ELSE add_object(L, L.default_object_data @@ made.item)

\* merge_with as it would be without the line that combines the validity flags.
merge_with_keeps_flag(L, other_ledger) ==
    [L EXCEPT !.errors = @ \o other_ledger.errors,
              !.already_logged = @ \cup other_ledger.already_logged]

\* The merge as it would be if the receiver took the other ledger's flag.
merge_with_takes_flag(L, other_ledger) ==
    [L EXCEPT !.errors = @ \o other_ledger.errors,
              !.is_valid = other_ledger.is_valid,
              !.already_logged = @ \cup other_ledger.already_logged]

\* ErrorLedger.merge_with
merge_with(L, other_ledger) ==
    [L EXCEPT !.errors = @ \o other_ledger.errors,
              !.is_valid = @ /\ other_ledger.is_valid,
              !.already_logged = @ \cup other_ledger.already_logged]

\* ErrorLedger.is_valid
is_valid(L) == L.is_valid

\* ErrorLedger.get_full_results
get_full_results(L) == L.errors

\* ensure_unique_error_list: the first occurrence of each record is kept.
ensure_unique_error_list(dict_list) ==
    LET keep(i) == \A j \in 1..(i - 1) : dict_list[j] # dict_list[i]
        F[i \in 0..Len(dict_list)] ==
            IF i = 0 THEN <<>>
            ELSE IF keep(i) THEN Append(F[i - 1], dict_list[i]) ELSE F[i - 1]
    IN F[Len(dict_list)]

\* The records of one level, in order.
OfLevel(L, level) ==
    LET F[i \in 0..Len(L.errors)] ==
            IF i = 0 THEN <<>>
            ELSE IF L.errors[i]["level"] = level
                 THEN Append(F[i - 1], L.errors[i]) ELSE F[i - 1]
    IN F[Len(L.errors)]

\* ErrorLedger.get_errors: [result, L]
get_errors(L, unique) ==
    IF unique
    THEN LET error_set == ensure_unique_error_list(OfLevel(L, ERROR))
         IN [result |-> error_set, L |-> [L EXCEPT !.error_count = Len(error_set)]]
    ELSE [result |-> OfLevel(L, ERROR), L |-> L]

\* ErrorLedger.get_warnings: [result, L]
get_warnings(L, unique) ==
    IF unique
    THEN LET warning_set == ensure_unique_error_list(OfLevel(L, WARN))
         IN [result |-> warning_set, L |-> [L EXCEPT !.warning_count = Len(warning_set)]]
    ELSE [result |-> OfLevel(L, WARN), L |-> L]

-----------------------------------------------------------------------------
(* Calls on ledgers a caller holds: the ErrorLedger API on its own. *)

MaxOps == 3

LedgerNames == {"a", "b", "c"}

\* The arguments the callers construct the ledgers with.
LedgerDefaults(n) ==
    CASE n = "a" -> PyMap([validation_type |-> "None"])
      [] n = "b" -> PyNone
      [] OTHER   -> PyMap([validation_type |-> "full"])

LedgerLogging(n) == n # "b"

\* <<message, level, object_data>> of the add_message (create_error_object) calls.
MessageArgs ==
    {<<PyStr("m1"), ERROR, PyNone>>,
     <<PyStr("m1"), WARN, PyNone>>,
     <<PyStr("m2"), WARN, PyMap([validation_type |-> "custom"])>>,
     <<PyDict(<< <<"age", "too old">> >>), ERROR, PyMap([description |-> "Child 0"])>>,
     <<PyDict(<< <<"age", "too old">>, <<"name", "blank">> >>), ERROR, PyNone>>,
     <<PyDict(<<>>), WARN, PyNone>>,
     <<PyInt(42), ERROR, PyNone>>,
     <<PyNone, WARN, PyNone>>}

\* The records of the add_object calls.
ObjectArgs ==
    {[level |-> ERROR, message |-> "m3"],
     [level |-> WARN, message |-> "m3", validation_type |-> "custom"],
     [message |-> "m3"],
     [level |-> ERROR]}

HasErrorRecord(records) ==
    \E i \in 1..Len(records) :
        "level" \in DOMAIN records[i] /\ records[i]["level"] = ERROR

\* The records a call appended to ledger n.
Appended(before, after) == SubSeq(after.errors, Len(before.errors) + 1, Len(after.errors))

LedgerStep(n, op, args, res) ==
    /\ nops < MaxOps
    /\ nops' = nops + 1
    /\ ledgers' = [ledgers EXCEPT ![n] = res.L]
    /\ last' = [op |-> op, on |-> n, args |-> args, exc |-> res.exc,
                before |-> ledgers[n]]
    /\ everError' = [everError EXCEPT
                        ![n] = @ \/ HasErrorRecord(Appended(ledgers[n], res.L))]
    /\ UNCHANGED validateVars

LAddMessage(n, a) ==
    LedgerStep(n, "add_message", a, add_message(ledgers[n], a[1], a[2], a[3]))

LAddObject(n, r) ==
    LedgerStep(n, "add_object", <<r>>, add_object(ledgers[n], r))

LMergeWith(n, m) ==
    LedgerStep(n, "merge_with", <<m>>,
               [exc |-> NoExc, L |-> merge_with(ledgers[n], ledgers[m])])

\* The static create_error_object, called on its own: no ledger changes.
LCreateErrorObject(a) ==
    /\ nops < MaxOps
    /\ nops' = nops + 1
    /\ last' = [op |-> "create_error_object", on |-> "", args |-> a,
                exc |-> create_error_object(a[1], a[2], a[3]).exc,
                item |-> create_error_object(a[1], a[2], a[3]).item]
    /\ UNCHANGED <<ledgers, everError>>
    /\ UNCHANGED validateVars

ValidateIdle ==
    /\ pc = "idle" /\ cfg = <<>> /\ ledger = PyNone /\ cache = <<>>
    /\ heap = <<>> /\ cur = [slot |-> 0] /\ applied = <<>> /\ exc = NoExc
    /\ returned = PyNone /\ hist = <<>>

InitLedger ==
    /\ ledgers = [n \in LedgerNames |-> NewLedger(LedgerDefaults(n), LedgerLogging(n))]
    /\ nops = 0
    /\ last = NoCall
    /\ everError = [n \in LedgerNames |-> FALSE]
    /\ ValidateIdle

NextLedger ==
    \/ \E n \in LedgerNames, a \in MessageArgs : LAddMessage(n, a)
    \/ \E n \in LedgerNames, r \in ObjectArgs : LAddObject(n, r)
    \/ \E n \in LedgerNames, m \in LedgerNames : LMergeWith(n, m)
    \/ \E a \in MessageArgs : LCreateErrorObject(a)

SpecLedger == InitLedger /\ [][NextLedger]_vars

-----------------------------------------------------------------------------
(* pylidator.py: the validators a caller declares, and what it validates. *)

MaxItems == 2
MaxValidators == 2

Unread == [t |-> "unread"]
PyBool(b) == [t |-> "bool", v |-> b]

\* The category key None of _cached_provided_items.
OfNone == "(None)"

\* The declarations @validator(of, requires, affects) of the validators, each
\* wrapping a raw function that returns its row's `returns` attribute.
Validators ==
    {"validate_parent_with_constants_service", "validate_child",
     "validate_child_tagged", "validate_root"}

Of(v) ==
    CASE v = "validate_parent_with_constants_service" -> "base_obj"
      [] v = "validate_child" -> "child_obj"
      [] v = "validate_child_tagged" -> "child_obj"
      [] OTHER -> OfNone

Requires(v) ==
    IF v = "validate_parent_with_constants_service"
    THEN PyStr("constants_service") ELSE PyNone

AffectsOf(v) == IF v = "validate_child_tagged" THEN PyStr("A") ELSE PyNone

\* requires.split() of a one-word string, or the list given.
RequiresList(requires) ==
    IF requires.t = "str" THEN <<requires.v>> ELSE requires.v

\* The rows: the root object and its children.
ChildId(i) == "child" \o ToString(i - 1)
RowIds == {"root"} \cup {ChildId(i) : i \in 1..MaxItems}

\* What a raw validator function may return for a row.
Rets ==
    {PyNone, PyStr(""), PyDict(<<>>), PyList(<<>>),
     PyStr("bad"),
     PyList(<<PyStr("error one"), PyStr("error two")>>),
     PyDict(<< <<"first_name", "required">>, <<"age", "too old">> >>),
     PyList(<<PyDict(<< <<"age", "too old">> >>)>>)}

\* The extra_context arguments.
ExtraContexts ==
    {PyNone, PyMap(<<>>), PyMap([not_constants_service |-> "cs"]),
     PyMap([constants_service |-> "cs"])}

\* The providers arguments: None, or the categories with a generator.
Providers ==
    {PyNone, PyMap([base_obj |-> "_provide_base_obj"]),
     PyMap([base_obj |-> "_provide_base_obj", child_obj |-> "_provide_child_obj"])}

\* The field_name_mapper arguments: not supplied, a mapper that returns None,
\* and the mapper of the tests (field_name + "_mapped").
FieldNameMappers == {PyNone, PyStr("returns_none"), PyStr("_mapped")}

field_name_mapper(mapper, field_name) ==
    IF mapper = PyStr("_mapped") THEN PyStr(field_name \o "_mapped") ELSE PyNone

\* titlecase(" ".join(field_name.split("_"))) on the field names of Rets.
Titlecase(field_name) ==
    CASE field_name = "first_name" -> "First Name"
      [] field_name = "age" -> "Age"
      [] OTHER -> field_name

\* The extra fields a child generator yields with its i-th row: none, the
\* description of the tests, or a description and a validation_type.
Flavours == {"bare", "described", "typed"}

ExtraFields(flavour, i) ==
    CASE flavour = "bare" -> PyNone
      [] flavour = "described" ->
            PyMap([description |-> "Child " \o ToString(i - 1)])
      [] OTHER ->
            PyMap([description |-> "Child " \o ToString(i - 1),
                   validation_type |-> "custom"])

\* What generator(obj) yields: <<row, extra fields>> pairs.
Yields(generator) ==
    IF generator = "_provide_base_obj"
    THEN {<< <<"root", PyNone>> >>}
    ELSE {[i \in 1..k |-> <<ChildId(i), ExtraFields(f, i)>>] :
             k \in 0..MaxItems, f \in Flavours}

-----------------------------------------------------------------------------
(* pylidator.py: validate._process_validator_results *)

\* The message as it would be with include_field_name_in_message not read.
FieldMessage_always_prefixed(verbose_name, error, include_field_name_in_message) ==
    verbose_name \o ": " \o error

\* The message of a record made for a mapping entry.
FieldMessage(verbose_name, error, include_field_name_in_message) ==
    IF include_field_name_in_message THEN verbose_name \o ": " \o error ELSE error

\* The verbose name of a field: the mapper's, or the humanized field name
\* when the mapper gave None.
VerboseName(mapped, field_name) ==
    IF mapped = PyNone THEN Titlecase(field_name) ELSE mapped.v

\* One entry of a returned mapping (the dict branch): [exc, L]
MappingEntry(L, field_name, error, level, object_data, mapper, include) ==
    LET object_data_with_field == [field |-> field_name] @@ object_data
        mapped == IF mapper = PyNone THEN PyNone
                  ELSE field_name_mapper(mapper, field_name)
        verbose_name == VerboseName(mapped, field_name)
        with_verbose == [verbose_name |-> verbose_name] @@ object_data_with_field
    IN add_message(L, PyStr(FieldMessage(verbose_name, error, include)), level,
                   PyMap(with_verbose))

\* One entry of a mapping inside a returned sequence (the else branch): the
\* mapper is called without the test for None.
SequenceEntry(L, field_name, error, level, object_data, mapper, include) ==
    IF mapper = PyNone
    THEN [exc |-> Raise("TypeError", {"NoneType"}), L |-> L]
    ELSE LET object_data_with_field == [field |-> field_name] @@ object_data
             mapped == field_name_mapper(mapper, field_name)
             verbose_name == VerboseName(mapped, field_name)
             with_verbose == [verbose_name |-> verbose_name] @@ object_data_with_field
         IN add_message(L, PyStr(FieldMessage(verbose_name, error, include)), level,
                        PyMap(with_verbose))

\* The loop over the entries of a mapping; an exception ends it.
Entries(L, entries, level, object_data, mapper, include, in_sequence) ==
    LET F[i \in 0..Len(entries)] ==
            IF i = 0 THEN [exc |-> NoExc, L |-> L]
            ELSE IF F[i - 1].exc # NoExc THEN F[i - 1]
            ELSE IF in_sequence
                 THEN SequenceEntry(F[i - 1].L, entries[i][1], entries[i][2], level,
                                    object_data, mapper, include)
                 ELSE MappingEntry(F[i - 1].L, entries[i][1], entries[i][2], level,
                                   object_data, mapper, include)
    IN F[Len(entries)]

\* The loop over a returned sequence as it would be if it left after the
\* first item.
SequenceItems_first_only(L, items, level, object_data, mapper, include) ==
    IF items[1].t = "str"
    THEN LET r == add_message(L, items[1], level, PyMap(object_data))
         IN [exc |-> r.exc, L |-> r.L, assigned |-> TRUE]
    ELSE LET r == Entries(L, items[1].v, level, object_data, mapper, include, TRUE)
         IN [exc |-> r.exc, L |-> r.L, assigned |-> Len(items[1].v) > 0]

\* The loop over the items of a returned sequence: [exc, L, assigned], where
\* assigned says whether is_valid was assigned.
SequenceItems(L, items, level, object_data, mapper, include) ==
    LET F[i \in 0..Len(items)] ==
            IF i = 0 THEN [exc |-> NoExc, L |-> L, assigned |-> FALSE]
            ELSE IF F[i - 1].exc # NoExc THEN F[i - 1]
            ELSE IF items[i].t = "str"
                 THEN LET r == add_message(F[i - 1].L, items[i], level, PyMap(object_data))
                      IN [exc |-> r.exc, L |-> r.L, assigned |-> TRUE]
            ELSE IF items[i].t = "dict"
                 THEN LET r == Entries(F[i - 1].L, items[i].v, level, object_data,
                                       mapper, include, TRUE)
                      IN [exc |-> r.exc, L |-> r.L,
                          assigned |-> F[i - 1].assigned \/ Len(items[i].v) > 0]
            ELSE F[i - 1]
    IN F[Len(items)]

\* _process_validator_results(ret, level, object_data, obj): [exc, L, is_valid]
process_validator_results(L, ret, level, object_data, mapper, include) ==
    IF ~Truthy(ret)
    THEN [exc |-> NoExc, L |-> L, is_valid |-> TRUE]
    ELSE IF ret.t = "str"
    THEN LET r == add_message(L, ret, level, PyMap(object_data))
         IN [exc |-> r.exc, L |-> r.L, is_valid |-> FALSE]
    ELSE IF ret.t = "dict"
    THEN LET r == Entries(L, ret.v, level, object_data, mapper, include, FALSE)
         IN [exc |-> r.exc, L |-> r.L, is_valid |-> FALSE]
    ELSE IF ret.t = "list"
    THEN LET r == SequenceItems(L, ret.v, level, object_data, mapper, include)
         IN IF r.exc = NoExc /\ ~r.assigned
            THEN [exc |-> Raise("UnboundLocalError", {"is_valid"}), L |-> r.L,
                  is_valid |-> FALSE]
            ELSE [exc |-> r.exc, L |-> r.L, is_valid |-> FALSE]
    ELSE [exc |-> Raise("TypeError", {ret.t}), L |-> L, is_valid |-> FALSE]

\* Whether processing ret reads field_name_mapper and
\* include_field_name_in_message: it does at every mapping entry.
ReadsFieldArguments(ret) ==
    /\ Truthy(ret)
    /\ \/ ret.t = "dict"
       \/ /\ ret.t = "list"
          /\ \E i \in 1..Len(ret.v) : ret.v[i].t = "dict" /\ Len(ret.v[i].v) > 0

-----------------------------------------------------------------------------
(* pylidator.py: validate and the wrapper the validator decorator makes. *)

Categories == {"base_obj", "child_obj"}

\* An item of a cached tuple: the <<row, object_data>> pair a generator
\* yielded, object_data being 0 for None or the place in the heap of the dict
\* object; and the root object itself, which is no pair.
Pair(row, ref) == [row |-> row, object_data |-> ref]
BareObject(row) == [row |-> row]

\* _cached_provided_items = {None: [obj]}
InitialCache == (OfNone :> <<BareObject("root")>>)

\* The test as it would be if only the initial entry counted as cached.
CacheHit_never(c, of) == of = OfNone

\* `if of in _cached_provided_items`
CacheHit(c, of) == of \in DOMAIN c

\* The error get_provided_items raises for a category without a generator:
\* formatting the KeyError's message reads validator_func_name, a name of the
\* decorator's scope that validate does not have.
MissingProviderError(of, validator) == Raise("NameError", {"validator_func_name"})

\* tuple(generator(obj)): the items, and the heap with the yielded dicts.
Materialize(yielded, h) ==
    LET dicts == SelectSeq(yielded, LAMBDA p : p[2] # PyNone)
        place(i) == Len(h) + Cardinality({j \in 1..i : yielded[j][2] # PyNone})
    IN [items |-> [i \in 1..Len(yielded) |->
                     Pair(yielded[i][1],
                          IF yielded[i][2] = PyNone THEN 0 ELSE place(i))],
        heap |-> h \o [i \in 1..Len(dicts) |-> dicts[i][2].v]]

\* The requires loop as it would be if it passed over an unavailable key.
ResolveContext_lenient(requires, extra_context) == [exc |-> NoExc, kwargs |-> <<>>]

\* The requires loop of actually_run_validator_func: [exc, kwargs]
ResolveContext(requires, extra_context) ==
    IF ~Truthy(requires) THEN [exc |-> NoExc, kwargs |-> <<>>]
    ELSE LET requires_list == RequiresList(requires)
             available(k) == extra_context.t = "map" /\ k \in DOMAIN extra_context.v
             F[i \in 0..Len(requires_list)] ==
                 IF i = 0 THEN [exc |-> NoExc, kwargs |-> <<>>]
                 ELSE IF F[i - 1].exc # NoExc THEN F[i - 1]
                 ELSE IF available(requires_list[i])
                      THEN [exc |-> NoExc,
                            kwargs |-> (requires_list[i] :> extra_context.v[requires_list[i]])
                                       @@ F[i - 1].kwargs]
                      ELSE [exc |-> Raise("ContextNotAvailableError", {requires_list[i]}),
                            kwargs |-> F[i - 1].kwargs]
         IN F[Len(requires_list)]

\* `if affects: object_data["affects"] = affects`
TagAffects(object_data, affects) ==
    IF Truthy(affects) THEN [affects |-> affects.v] @@ object_data ELSE object_data

\* The end-of-run summary reads get_errors() and get_warnings().
Summary(L) == get_warnings(get_errors(L, TRUE).L, TRUE).L

NewHist ==
    [genCalls |-> [c \in Categories |-> 0],
     yielded |-> [c \in Categories |-> <<>>],
     fetched |-> <<>>,
     calls |-> <<>>,
     step |-> NoCall,
     prov |-> <<>>]

NewCfg(logging) ==
    [logging |-> logging,
     providers |-> Unread,
     extra_context |-> Unread,
     field_name_mapper |-> Unread,
     include_field_name_in_message |-> Unread,
     returns |-> [r \in RowIds |-> Unread]]

\* `providers[of]` finds a generator: providers is a dict and has the key.
Registered(providers, of) == providers.t = "map" /\ of \in DOMAIN providers.v

\* An argument of the call is fixed by the first read of it.
Reads(field, value) == cfg[field] \in {Unread, value}

Fail(e) == pc' = "failed" /\ exc' = e

\* validate is called: a new ledger and a new cache.
StartValidate(logging) ==
    /\ pc \in {"idle", "done", "failed"}
    /\ cfg' = NewCfg(logging)
    /\ ledger' = NewLedger(PyMap([validation_type |-> "None"]), logging)
    /\ cache' = InitialCache
    /\ heap' = <<>>
    /\ cur' = [slot |-> 0]
    /\ applied' = <<>>
    /\ exc' = NoExc
    /\ returned' = PyNone
    /\ hist' = NewHist
    /\ pc' = "loop"
    /\ UNCHANGED ledgerVars

\* validators.items() gives each level once, and unique_everseen each
\* validator of a level once.
InDictOrder(level, v) ==
    IF applied # <<>> /\ applied[Len(applied)].level = level
    THEN \A j \in 1..Len(applied) : ~(applied[j].level = level /\ applied[j].v = v)
    ELSE \A j \in 1..Len(applied) : applied[j].level # level

\* The loops of validate reach validator v under level: the wrapper resolves
\* what v requires.
NextValidator(level, v, extra_context) ==
    /\ pc = "loop"
    /\ Len(applied) < MaxValidators
    /\ InDictOrder(level, v)
    /\ IF Truthy(Requires(v)) THEN Reads("extra_context", extra_context)
       ELSE extra_context = cfg.extra_context
    /\ cfg' = [cfg EXCEPT !.extra_context = extra_context]
    /\ LET r == ResolveContext(Requires(v), extra_context)
       IN /\ cur' = [level |-> level, v |-> v, slot |-> Len(applied) + 1,
                     kwargs |-> r.kwargs, items |-> <<>>, i |-> 1, is_valid |-> TRUE]
          /\ IF r.exc # NoExc THEN Fail(r.exc)
             ELSE pc' = "fetch" /\ exc' = exc
    /\ UNCHANGED <<ledger, cache, heap, applied, returned, hist>>
    /\ UNCHANGED ledgerVars

\* The loop over the items goes on, or it is over and the wrapper returns
\* is_valid to validate, which notes it in validators_applied.
LoopOrReturn(c) ==
    IF c.i <= Len(c.items)
    THEN pc' = "items" /\ applied' = applied
    ELSE /\ pc' = "loop"
         /\ applied' = Append(applied, [level |-> c.level, v |-> c.v,
                                        is_valid |-> c.is_valid])

\* get_provided_items(of), the category cached.
FetchCached ==
    /\ pc = "fetch"
    /\ CacheHit(cache, Of(cur.v))
    /\ cur' = [cur EXCEPT !.items = cache[Of(cur.v)]]
    /\ LoopOrReturn(cur')
    /\ hist' = [hist EXCEPT !.fetched = Append(@, [slot |-> cur.slot, of |-> Of(cur.v),
                                                   items |-> cache[Of(cur.v)]])]
    /\ UNCHANGED <<cfg, ledger, cache, heap, exc, returned>>
    /\ UNCHANGED ledgerVars

\* get_provided_items(of), the category not cached and without a generator.
FetchMissing(providers) ==
    /\ pc = "fetch"
    /\ ~CacheHit(cache, Of(cur.v))
    /\ Reads("providers", providers)
    /\ ~Registered(providers, Of(cur.v))
    /\ cfg' = [cfg EXCEPT !.providers = providers]
    /\ Fail(MissingProviderError(Of(cur.v), cur.v))
    /\ UNCHANGED <<ledger, cache, heap, cur, applied, returned, hist>>
    /\ UNCHANGED ledgerVars

\* get_provided_items(of), the category not cached: its generator is run and
\* the tuple of what it yields is cached.
FetchGenerated(providers, yielded) ==
    /\ pc = "fetch"
    /\ ~CacheHit(cache, Of(cur.v))
    /\ Reads("providers", providers)
    /\ Registered(providers, Of(cur.v))
    /\ yielded \in Yields(providers.v[Of(cur.v)])
    /\ cfg' = [cfg EXCEPT !.providers = providers]
    /\ LET m == Materialize(yielded, heap)
       IN /\ cache' = (Of(cur.v) :> m.items) @@ cache
          /\ heap' = m.heap
          /\ cur' = [cur EXCEPT !.items = m.items]
          /\ hist' = [hist EXCEPT
                 !.genCalls[Of(cur.v)] = @ + 1,
                 !.yielded[Of(cur.v)] = yielded,
                 !.fetched = Append(@, [slot |-> cur.slot, of |-> Of(cur.v),
                                        items |-> m.items])]
    /\ LoopOrReturn(cur')
    /\ UNCHANGED <<ledger, exc, returned>>
    /\ UNCHANGED ledgerVars

\* `row, object_data = item` on an item that is no pair.
UnpackFails ==
    /\ pc = "items"
    /\ cur.i <= Len(cur.items)
    /\ "object_data" \notin DOMAIN cur.items[cur.i]
    /\ Fail(Raise("TypeError", {"cannot unpack"}))
    /\ UNCHANGED <<cfg, ledger, cache, heap, cur, applied, returned, hist>>
    /\ UNCHANGED ledgerVars

IncludeFlag(x) == x = PyBool(TRUE)

\* One turn of the loop over the items: the raw function is called on the
\* row and its return is processed.
ProcessItem(ret, mapper, include) ==
    /\ pc = "items"
    /\ cur.i <= Len(cur.items)
    /\ "object_data" \in DOMAIN cur.items[cur.i]
    /\ LET item == cur.items[cur.i]
           row == item.row
           ref == item.object_data
           object_data == TagAffects(IF ref = 0 THEN <<>> ELSE heap[ref], AffectsOf(cur.v))
           r == process_validator_results(ledger, ret, cur.level, object_data,
                                          mapper, IncludeFlag(include))
           made == Len(r.L.errors) - Len(ledger.errors)
       IN /\ cfg.returns[row] \in {Unread, ret}
          /\ IF ReadsFieldArguments(ret)
             THEN /\ Reads("field_name_mapper", mapper)
                  /\ Reads("include_field_name_in_message", include)
             ELSE /\ mapper = cfg.field_name_mapper
                  /\ include = cfg.include_field_name_in_message
          /\ cfg' = [cfg EXCEPT !.returns[row] = ret,
                                !.field_name_mapper = mapper,
                                !.include_field_name_in_message = include]
          /\ heap' = IF ref = 0 THEN heap ELSE [heap EXCEPT ![ref] = object_data]
          /\ ledger' = r.L
          /\ cur' = [cur EXCEPT !.i = @ + 1, !.is_valid = @ /\ r.is_valid]
          /\ hist' = [hist EXCEPT
                 !.calls = Append(@, [slot |-> cur.slot, row |-> row]),
                 !.step = [slot |-> cur.slot, i |-> cur.i, row |-> row, ret |-> ret,
                           object_data |-> object_data, before |-> ledger,
                           level |-> cur.level, mapper |-> mapper,
                           include |-> IncludeFlag(include)],
                 !.prov = @ \o [k \in 1..made |-> [slot |-> cur.slot, i |-> cur.i]]]
          /\ IF r.exc # NoExc THEN Fail(r.exc) /\ applied' = applied
             ELSE LoopOrReturn(cur') /\ exc' = exc
    /\ UNCHANGED <<cache, returned>>
    /\ UNCHANGED ledgerVars

\* Every validator has run: validate logs its summary and returns the ledger.
FinishValidate ==
    /\ pc = "loop"
    /\ ledger' = IF cfg.logging THEN Summary(ledger) ELSE ledger
    /\ returned' = ledger'
    /\ pc' = "done"
    /\ UNCHANGED <<cfg, cache, heap, cur, applied, exc, hist>>
    /\ UNCHANGED ledgerVars

Init ==
    /\ ledgers = <<>>
    /\ nops = 0
    /\ last = NoCall
    /\ everError = <<>>
    /\ ValidateIdle

Next ==
    \/ \E logging \in BOOLEAN : StartValidate(logging)
    \/ \E level \in LEVELS, v \in Validators, c \in ExtraContexts \cup {Unread} :
          NextValidator(level, v, c)
    \/ FetchCached
    \/ \E p \in Providers : FetchMissing(p)
    \/ \E p \in Providers :
          \E y \in UNION {Yields(g) : g \in {"_provide_base_obj", "_provide_child_obj"}} :
             FetchGenerated(p, y)
    \/ UnpackFails
    \/ \E ret \in Rets, m \in FieldNameMappers \cup {Unread},
          i \in {PyBool(TRUE), PyBool(FALSE), Unread} : ProcessItem(ret, m, i)
    \/ FinishValidate

Spec == Init /\ [][Next]_vars

-----------------------------------------------------------------------------
(* Claims about validate, checked under Spec. *)

Started == pc # "idle"

\* The raw function has been called in this run; hist.step is the last call.
Stepped == Started /\ hist.step # NoCall

\* No call has been made, and no validator has begun, since hist.step.
StepIsLatest ==
    /\ Stepped
    /\ cur.slot = hist.step.slot
    /\ cur.i = hist.step.i + 1

\* The records the last call added.
NewRecords ==
    SubSeq(ledger.errors, Len(hist.step.before.errors) + 1, Len(ledger.errors))

\* The fetches of a category in this run.
FetchesOf(c) == {j \in 1..Len(hist.fetched) : hist.fetched[j].of = c}

\* C2: within one validate call the generator of a category is invoked at
\* most once, however many validators are declared against the category,
\* and every validator of the category receives the one materialized item
\* sequence; a separate validate call invokes the generator again, so in
\* every call a category that was fetched had its generator invoked once.
C2_GeneratorOncePerCall ==
    Started =>
        \A c \in Categories :
            /\ hist.genCalls[c] <= 1
            /\ FetchesOf(c) # {} => hist.genCalls[c] = 1
            /\ \A j \in FetchesOf(c) :
                  /\ hist.fetched[j].items = cache[c]
                  /\ \A k \in FetchesOf(c) : hist.fetched[k].items = hist.fetched[j].items
                  /\ Len(hist.fetched[j].items) = Len(hist.yielded[c])
                  /\ \A i \in 1..Len(hist.yielded[c]) :
                        hist.fetched[j].items[i].row = hist.yielded[c][i][1]

\* Two validators under different levels have fetched the two items of one
\* category.
C2_Witness ==
    /\ Started
    /\ Len(hist.fetched) = 2
    /\ hist.fetched[1].of = "child_obj"
    /\ hist.fetched[2].of = "child_obj"
    /\ Len(hist.fetched[2].items) = 2
    /\ Len(applied) = 2
    /\ applied[1].level # applied[2].level
    /\ hist.genCalls["child_obj"] = 1

IsListOfStrings(ret) ==
    ret.t = "list" /\ \A k \in 1..Len(ret.v) : ret.v[k].t = "str"

\* C3: a falsy return (None, "", {}, []) adds no record, a non-empty string
\* one record and a list of N strings N records, one per string and in the
\* order returned, each with the string as message and the level the
\* validator is listed under; and when every return was falsy the ledger
\* handed back is empty and valid.
C3_RecordsPerReturn ==
    /\ StepIsLatest =>
          LET st == hist.step
          IN /\ ~Truthy(st.ret) => NewRecords = <<>> /\ pc # "failed"
             /\ (st.ret.t = "str" /\ Truthy(st.ret)) =>
                   /\ Len(NewRecords) = 1
                   /\ NewRecords[1]["message"] = st.ret.v
                   /\ NewRecords[1]["level"] = st.level
             /\ (IsListOfStrings(st.ret) /\ Truthy(st.ret)) =>
                   /\ Len(NewRecords) = Len(st.ret.v)
                   /\ \A k \in 1..Len(st.ret.v) :
                         /\ NewRecords[k]["message"] = st.ret.v[k].v
                         /\ NewRecords[k]["level"] = st.level
    /\ (pc = "done" /\ \A r \in RowIds : ~Truthy(cfg.returns[r]) \/ cfg.returns[r] = Unread) =>
          /\ get_full_results(returned) = <<>>
          /\ is_valid(returned)

\* A validator listed under WARN returned a list of two strings for the
\* second child, and the ledger has the two records.
C3_Witness ==
    /\ StepIsLatest
    /\ hist.step.ret = PyList(<<PyStr("error one"), PyStr("error two")>>)
    /\ hist.step.level = WARN
    /\ hist.step.i = 2
    /\ Len(NewRecords) = 2
    /\ pc = "loop"

\* The category, and the extra fields, of the item a record was made for.
CategoryOfSlot(s) ==
    hist.fetched[CHOOSE j \in 1..Len(hist.fetched) : hist.fetched[j].slot = s].of

\* C4 as stated: the records made for item i come after every record made
\* for item i - 1, each record made for item i carries all key/value pairs of
\* the extra fields the provider yielded with item i, and an item whose
\* return is falsy contributes no record.
C4_Original ==
    (Started /\ pc # "failed") =>
        \A r \in 1..Len(hist.prov) :
            LET p == hist.prov[r]
                c == CategoryOfSlot(p.slot)
                extra == hist.yielded[c][p.i][2]
                row == hist.yielded[c][p.i][1]
            IN c \in Categories =>
                  /\ \A q \in 1..(r - 1) :
                        hist.prov[q].slot = p.slot => hist.prov[q].i <= p.i
                  /\ extra.t = "map" =>
                        \A k \in DOMAIN extra.v :
                            /\ k \in DOMAIN ledger.errors[r]
                            /\ ledger.errors[r][k] = extra.v[k]
                  /\ Truthy(cfg.returns[row])

\* The verbose name C5 expects: the mapper's result, or the humanized field
\* name when no mapper is supplied or the mapper returns None.
ExpectedVerboseName(mapper, field_name) ==
    IF mapper = PyStr("_mapped") THEN field_name \o "_mapped"
    ELSE Titlecase(field_name)

\* C5: a non-empty mapping {field_name: message} adds exactly one record per
\* entry, with field the field name and verbose_name the mapper's result (the
\* humanized name when there is no mapper or it returns None); its message is
\* "{verbose_name}: {message}" when include_field_name_in_message is true and
\* "{message}" when it is false.
C5_MappingRecords ==
    (StepIsLatest /\ hist.step.ret.t = "dict" /\ Truthy(hist.step.ret)) =>
        LET st == hist.step
        IN /\ pc # "failed"
           /\ Len(NewRecords) = Len(st.ret.v)
           /\ \A k \in 1..Len(st.ret.v) :
                 LET verbose == ExpectedVerboseName(st.mapper, st.ret.v[k][1])
                 IN /\ NewRecords[k]["field"] = st.ret.v[k][1]
                    /\ NewRecords[k]["verbose_name"] = verbose
                    /\ NewRecords[k]["message"] =
                          IF st.include THEN verbose \o ": " \o st.ret.v[k][2]
                          ELSE st.ret.v[k][2]

\* A two-field mapping was processed with a mapper that returns None and
\* without the field name in the message.
C5_Witness ==
    /\ StepIsLatest
    /\ hist.step.ret.t = "dict"
    /\ Len(hist.step.ret.v) = 2
    /\ hist.step.mapper = PyStr("returns_none")
    /\ ~hist.step.include
    /\ Len(NewRecords) = 2
    /\ NewRecords[1]["message"] = "required"
    /\ NewRecords[1]["verbose_name"] = "First Name"

\* The validator being run requires a key extra_context does not have.
ContextMissing ==
    /\ Started
    /\ cur.slot > 0
    /\ Truthy(Requires(cur.v))
    /\ cfg.extra_context # Unread
    /\ \E k \in {RequiresList(Requires(cur.v))[j] :
                   j \in 1..Len(RequiresList(Requires(cur.v)))} :
          cfg.extra_context.t = "none" \/ k \notin DOMAIN cfg.extra_context.v

\* C6: a validator requiring a key that extra_context lacks (extra_context
\* not supplied included) makes validate fail with ContextNotAvailable naming
\* the key, before the validator's provider is resolved and before its raw
\* function is called on any item, and no ledger is returned.
C6_ContextNotAvailable ==
    ContextMissing =>
        /\ pc = "failed"
        /\ exc.type = "ContextNotAvailableError"
        /\ exc.names = {RequiresList(Requires(cur.v))[1]}
        /\ \A j \in 1..Len(hist.fetched) : hist.fetched[j].slot # cur.slot
        /\ \A j \in 1..Len(hist.calls) : hist.calls[j].slot # cur.slot
        /\ returned = PyNone

\* The second validator of a call required constants_service and no
\* extra_context was supplied.
C6_Witness ==
    /\ ContextMissing
    /\ cfg.extra_context = PyNone
    /\ cur.slot = 2
    /\ pc = "failed"
    /\ exc = Raise("ContextNotAvailableError", {"constants_service"})

\* The call failed in get_provided_items for the validator being run.
FailedInFetch ==
    /\ pc = "failed"
    /\ cur.slot > 0
    /\ exc.type # "ContextNotAvailableError"
    /\ \A j \in 1..Len(hist.fetched) : hist.fetched[j].slot # cur.slot

\* C7 as stated: a running validator declared against a category without a
\* registered generator (or with providers not supplied) makes validate fail
\* with the missing-provider error (the KeyError of get_provided_items) that
\* names both the category and the requesting validator.
C7_Original ==
    FailedInFetch =>
        /\ ~Registered(cfg.providers, Of(cur.v))
        /\ exc.type = "KeyError"
        /\ {Of(cur.v), cur.v} \subseteq exc.names

\* C8 as stated: a validator declared with of = None is run exactly once, on
\* the root object with no extra fields: get_provided_items(None) yields the
\* one pair (root, absent) and the findings on the root are recorded.
C8_Original ==
    (Started /\ cur.slot > 0 /\ Of(cur.v) = OfNone /\ pc # "fetch") =>
        /\ cur.items = <<Pair("root", 0)>>
        /\ pc # "failed"
        /\ pc = "loop" =>
              /\ {j \in 1..Len(hist.calls) : hist.calls[j].slot = cur.slot} # {}
              /\ \A j \in 1..Len(hist.calls) :
                    hist.calls[j].slot = cur.slot => hist.calls[j].row = "root"

\* C9 as stated: returning [{f: m}] adds the same records as returning
\* {f: m}, for every field_name_mapper and include_field_name_in_message.
C9_Original ==
    (/\ StepIsLatest
     /\ hist.step.ret.t = "list"
     /\ Len(hist.step.ret.v) = 1
     /\ SingleKeyDict(hist.step.ret.v[1])) =>
        LET st == hist.step
            alone == process_validator_results(st.before, st.ret.v[1], st.level,
                                               st.object_data, st.mapper, st.include)
        IN /\ alone.L.errors = ledger.errors
           /\ (alone.exc = NoExc) = (pc # "failed")

\* The validator that ran in a slot of this call.
ValidatorOfSlot(slot) ==
    IF slot <= Len(applied) THEN applied[slot].v ELSE cur.v

\* C14 as stated: every record of a validator declared with affects = A has
\* affects = A, and every record of a validator declared without affects has
\* no affects key (the generators yield none), also when a validator with an
\* affects tag ran before it on the same category's cached items.
C14_Original ==
    Started =>
        \A r \in 1..Len(hist.prov) :
            LET affects == AffectsOf(ValidatorOfSlot(hist.prov[r].slot))
            IN IF Truthy(affects)
               THEN /\ "affects" \in DOMAIN ledger.errors[r]
                    /\ ledger.errors[r]["affects"] = affects.v
               ELSE "affects" \notin DOMAIN ledger.errors[r]

-----------------------------------------------------------------------------
(* Claims about the ErrorLedger, checked under SpecLedger. *)

\* C1: after any sequence of add_message, add_object and merge_with calls,
\* is_valid() is true if and only if no ERROR-level record was ever added to
\* the ledger, directly or through a merged-in ledger; and once is_valid() is
\* false it never becomes true again.
C1_ValidIffNoErrorEverAdded ==
    /\ [](\A n \in LedgerNames : is_valid(ledgers[n]) <=> ~everError[n])
    /\ [][\A n \in LedgerNames : ~is_valid(ledgers[n]) => ~is_valid(ledgers'[n])]_vars

\* A merge_with that turned a valid ledger invalid.
C1_Witness ==
    /\ last.op = "merge_with"
    /\ last.before.is_valid
    /\ ~is_valid(ledgers[last.on])
    /\ everError[last.on]

CreateCall == last.op = "create_error_object"

\* What C10 says of the rejected shapes: a mapping that is not single-key, and
\* a message that is neither a string nor a mapping.
C10_Rejects ==
    CreateCall =>
        /\ (last.args[1].t = "dict" /\ Len(last.args[1].v) # 1) => last.exc # NoExc
        /\ last.args[1].t \notin {"dict", "str"} => last.exc # NoExc

\* C10 as stated: create_error_object with a single-key mapping
\* {field_name: error_text} returns a record whose field is the key and whose
\* message is exactly error_text, with no prefix; other shapes are rejected.
C10_Original ==
    /\ C10_Rejects
    /\ (CreateCall /\ SingleKeyDict(last.args[1])) =>
           /\ last.exc = NoExc
           /\ last.item["field"] = last.args[1].v[1][1]
           /\ last.item["message"] = last.args[1].v[1][2]

\* C10 as amended: the record's field is the key and its message is
\* "{field_name}: {error_text}", the raw field name prefixed by the primitive
\* itself; a multi-key (or empty) mapping is rejected, and so is a message
\* that is neither a string nor a mapping.
C10_Amended ==
    /\ C10_Rejects
    /\ (CreateCall /\ SingleKeyDict(last.args[1])) =>
           /\ last.exc = NoExc
           /\ last.item["field"] = last.args[1].v[1][1]
           /\ last.item["message"] =
                  last.args[1].v[1][1] \o ": " \o last.args[1].v[1][2]
           /\ last.item["level"] = last.args[2]

\* create_error_object has returned a record for a single-key mapping.
C10_Witness ==
    /\ CreateCall
    /\ SingleKeyDict(last.args[1])
    /\ last.exc = NoExc
    /\ last.item["message"] = "age: too old"

\* The ledger that was merged into the receiver by the last call, as it was
\* when the call was made.
MergedOther ==
    IF last.args[1] = last.on THEN last.before ELSE ledgers[last.args[1]]

\* The number of times record r occurs in a record sequence.
Occurrences(records, r) == Cardinality({i \in 1..Len(records) : records[i] = r})

\* Two ledgers agree on is_valid() and on the multiset of their records.
SameOutcome(L1, L2) ==
    /\ is_valid(L1) = is_valid(L2)
    /\ Len(get_full_results(L1)) = Len(get_full_results(L2))
    /\ \A i \in 1..Len(get_full_results(L1)) :
          Occurrences(get_full_results(L1), get_full_results(L1)[i]) =
          Occurrences(get_full_results(L2), get_full_results(L1)[i])

\* C11: merge_with puts the other ledger's records after the receiver's, each
\* source in its own order, and makes the receiver valid only if both were;
\* and for the ledgers a caller holds, with respect to is_valid() and the
\* multiset of records, (a merge b) merge c equals a merge (b merge c) and
\* a merge b equals b merge a.
C11_MergeConcatenatesAndCommutes ==
    /\ (last.op = "merge_with") =>
          /\ get_full_results(ledgers[last.on]) =
                get_full_results(last.before) \o get_full_results(MergedOther)
          /\ is_valid(ledgers[last.on]) =
                (is_valid(last.before) /\ is_valid(MergedOther))
    /\ \A a \in LedgerNames, b \in LedgerNames :
          SameOutcome(merge_with(ledgers[a], ledgers[b]),
                      merge_with(ledgers[b], ledgers[a]))
    /\ \A a \in LedgerNames, b \in LedgerNames, c \in LedgerNames :
          SameOutcome(merge_with(merge_with(ledgers[a], ledgers[b]), ledgers[c]),
                      merge_with(ledgers[a], merge_with(ledgers[b], ledgers[c])))

\* A valid ledger holding one record has taken in an invalid ledger holding
\* a different one.
C11_Witness ==
    /\ last.op = "merge_with"
    /\ last.args[1] # last.on
    /\ is_valid(last.before) /\ ~is_valid(MergedOther)
    /\ Len(get_full_results(last.before)) = 1
    /\ Len(get_full_results(MergedOther)) = 1
    /\ get_full_results(last.before) # get_full_results(MergedOther)
    /\ Len(get_full_results(ledgers[last.on])) = 2
    /\ ~is_valid(ledgers[last.on])

\* The last call was an add_message or an add_object that returned.
Added == last.op \in {"add_message", "add_object"} /\ last.exc = NoExc

\* The fields the caller supplied to the last add_object (the record) or
\* add_message (the extra fields).
Supplied ==
    IF last.op = "add_object" THEN last.args[1]
    ELSE IF last.args[3].t = "map" THEN last.args[3].v
    ELSE <<>>

\* C12 as stated: in every record appended through add_object or add_message,
\* a key present both in the ledger's defaults and in the supplied record or
\* extra fields holds the supplied value, not the default.
C12_Original ==
    Added =>
        \A i \in 1..Len(Appended(last.before, ledgers[last.on])) :
            \A k \in DOMAIN Supplied \cap DOMAIN last.before.default_object_data :
                Appended(last.before, ledgers[last.on])[i][k] = Supplied[k]

\* The record of the last add_object, the defaults merged in.
MergedRecord == last.args[1] @@ last.before.default_object_data

Complete(record) == {"level", "message"} \subseteq DOMAIN record

\* C13 as stated: add_object on a record that, defaults merged in, lacks level
\* or message fails, whatever the logging flag, and leaves the records, the
\* validity flag and the counts as they were; so every record of every ledger
\* has both level and message.
C13_Original ==
    /\ (last.op = "add_object" /\ ~Complete(MergedRecord)) =>
          /\ last.exc # NoExc
          /\ get_full_results(ledgers[last.on]) = get_full_results(last.before)
          /\ is_valid(ledgers[last.on]) = is_valid(last.before)
          /\ ledgers[last.on].error_count = last.before.error_count
          /\ ledgers[last.on].warning_count = last.before.warning_count
    /\ \A n \in LedgerNames :
          \A i \in 1..Len(get_full_results(ledgers[n])) :
              Complete(get_full_results(ledgers[n])[i])

\* The number of records of a level in a ledger.
RecordsOfLevel(L, level) ==
    Cardinality({i \in 1..Len(get_full_results(L)) :
                    /\ "level" \in DOMAIN get_full_results(L)[i]
                    /\ get_full_results(L)[i]["level"] = level})

\* C15 as stated: after any add_message, add_object and merge_with calls
\* (get_errors and get_warnings not called), error_count is the number of
\* ERROR records of the ledger and warning_count the number of WARN records.
C15_Original ==
    \A n \in LedgerNames :
        /\ ledgers[n].error_count = RecordsOfLevel(ledgers[n], ERROR)
        /\ ledgers[n].warning_count = RecordsOfLevel(ledgers[n], WARN)

====
